---------------------------- MODULE Spec2Model ----------------------------
(***************************************************************************)
(* A model of redis_cache.py: the RedisCache client (scalar and hash       *)
(* operations, the value codec, the key codec, expirations) running        *)
(* against a Redis database, with one or two client threads.               *)
(***************************************************************************)
EXTENDS Integers, FiniteSets, Sequences, TLC

VARIABLES
    store,   \* the database's string keys: wire key -> entry
    hstore,  \* the database's hashes: hash name -> field -> entry
    hrem,    \* remaining time to live of each hash, in seconds (0: none)
    prov,    \* history: the last write each wire key received
    pc,      \* each client thread's position inside its current call
    frame,   \* each client thread's current call: arguments and locals
    last,    \* history: each client thread's last completed call
    ticks,   \* number of clock advances so far
    pool     \* the process-wide registry of connection pools

vars == <<store, hstore, hrem, prov, pc, frame, last, ticks, pool>>

---------------------------------------------------------------------------
(* Bounds of the model.                                                    *)

\* Clock advances in one behaviour.
MaxTicks == 2
\* Largest counter value an increment may start from.
MaxCount == 6

\* The default timeout of set, 24*60*60 seconds.
DefaultTimeout == 86400

Keys == {"a", "b"}
Versions == {1, 2}
HNames == {"h"}
Fields == {"f", "g"}
Deltas == {1, 3}

---------------------------------------------------------------------------
(* Python values.  A value is [t, x, s]: its type, twice its numeric value *)
(* (so that halves are representable) and its text.  The text of a number  *)
(* is empty, or it is Big and the number is 2**53 more than x says: the    *)
(* integers from 2**53 on, which a float holds only when they are even.    *)

Big == "2**53"

IntV(n) == [t |-> "int", x |-> 2 * n, s |-> ""]
\* The integer 2**53 + d.
BigV(d) == [t |-> "int", x |-> 2 * d, s |-> Big]
FloatV(h) == [t |-> "float", x |-> h, s |-> ""]
BoolV(b) == [t |-> "bool", x |-> IF b THEN 2 ELSE 0, s |-> ""]
StrV(txt) == [t |-> "str", x |-> 0, s |-> txt]
ListV == [t |-> "list", x |-> 0, s |-> "[1, 2]"]
NoneV == [t |-> "none", x |-> 0, s |-> ""]
\* A mapping as a result; its items are kept beside it.
DictV == [t |-> "dict", x |-> 0, s |-> ""]

\* The values callers store: 5, 5.0, 3.5, True, "5", "3.5", "abc", [1, 2].
Values ==
    {IntV(5), FloatV(10), FloatV(7), BoolV(TRUE),
     StrV("5"), StrV("3.5"), StrV("abc"), ListV}

IsNumber(v) == v.t \in {"int", "float", "bool"}
IsText(v) == v.t \in {"str", "unicode"}

\* Python's == on two values: numbers by value, texts by their characters
\* (a str equals the unicode of the same ASCII characters).
PyEq(v, w) ==
    IF IsNumber(v) /\ IsNumber(w) THEN v.x = w.x /\ v.s = w.s
    ELSE IF IsText(v) /\ IsText(w) THEN v.s = w.s
    ELSE v.t = w.t /\ v.s = w.s

\* smart_unicode(value): a str becomes the unicode of the same characters.
SmartUnicode(v) == IF v.t = "str" THEN [v EXCEPT !.t = "unicode"] ELSE v

\* Twice the number a text spells, for the texts float() accepts.
TextAsHalves(txt) ==
    CASE txt = "5" -> 10
      [] txt = "3.5" -> 7
      [] OTHER -> 0

NumericTexts == {"5", "3.5"}

\* PyFloat keeping every integer as it is.
PyFloatExact(v) ==
    IF IsNumber(v) THEN [ok |-> TRUE, err |-> "none", h |-> v.x, base |-> v.s]
    ELSE IF IsText(v) /\ v.s \in NumericTexts
         THEN [ok |-> TRUE, err |-> "none", h |-> TextAsHalves(v.s),
               base |-> ""]
         ELSE [ok |-> FALSE, err |-> "TypeError", h |-> 0, base |-> ""]

\* The double nearest to the integer 2**53 + d, as its distance from 2**53:
\* the doubles from 2**53 to 2**54 are the even integers, and a tie goes to
\* the one whose last mantissa bit is 0.
RoundDouble(d) ==
    IF d % 2 = 0 THEN d
    ELSE IF ((d - 1) \div 2) % 2 = 0 THEN d - 1 ELSE d + 1

\* float(value): a number converts (an integer from 2**53 on to the nearest
\* double), a text is parsed (ValueError when it spells no number), anything
\* else is a TypeError.
PyFloat(v) ==
    IF IsNumber(v)
    THEN [ok |-> TRUE, err |-> "none",
          h |-> IF v.s = Big THEN 2 * RoundDouble(v.x \div 2) ELSE v.x,
          base |-> v.s]
    ELSE IF IsText(v)
         THEN IF v.s \in NumericTexts
              THEN [ok |-> TRUE, err |-> "none", h |-> TextAsHalves(v.s),
                    base |-> ""]
              ELSE [ok |-> FALSE, err |-> "ValueError", h |-> 0, base |-> ""]
         ELSE [ok |-> FALSE, err |-> "TypeError", h |-> 0, base |-> ""]

\* int(x) of a number given in halves: truncation toward zero.
PyInt(h) == IF h >= 0 THEN h \div 2 ELSE -((-h) \div 2)

---------------------------------------------------------------------------
(* Stored values: a Native Integer or an Opaque Blob (a pickle).           *)

\* base is Big when the Native Integer is 2**53 more than n.
NativeInt(n) == [w |-> "int", n |-> n, base |-> "", p |-> NoneV]
Pickled(v) == [w |-> "pickle", n |-> 0, base |-> "", p |-> v]
NoWire == [w |-> "nil", n |-> 0, base |-> "", p |-> NoneV]

\* The encoding decision of set, hset and hset_many.
Encode(value) ==
    LET f == PyFloat(value)
    IN  IF f.ok
        THEN IF 2 * PyInt(f.h) # f.h
             THEN Pickled(FloatV(f.h))
             ELSE [NativeInt(PyInt(f.h)) EXCEPT !.base = f.base]
        ELSE Pickled(value)

\* The decoding of get and hget: int(value), else unpickle.
Decode(raw) ==
    IF raw.w = "int" THEN [IntV(raw.n) EXCEPT !.s = raw.base] ELSE raw.p

\* PyAddOne taking a text or a list for the number 0.
PyAddOneLenient(v) ==
    IF v.t = "float" THEN [ok |-> TRUE, v |-> FloatV(v.x + 2)]
    ELSE [ok |-> TRUE, v |-> IntV(PyInt(v.x) + 1)]

\* value + 1 as the increment fallbacks compute it: a TypeError unless the
\* value is a number.
PyAddOne(v) ==
    IF v.t = "float" THEN [ok |-> TRUE, v |-> FloatV(v.x + 2)]
    ELSE IF IsNumber(v) THEN [ok |-> TRUE, v |-> IntV(PyInt(v.x) + 1)]
    ELSE [ok |-> FALSE, v |-> NoneV]

---------------------------------------------------------------------------
(* Timeouts.  A timeout argument is None or a number of seconds, kept in   *)
(* halves so that int(timeout) has something to truncate.                  *)

NoTtl == [none |-> TRUE, h |-> 0]
Secs(h) == [none |-> FALSE, h |-> h]

\* None, 0, 0.5, 1, -0.5, -1.
Ttls == {NoTtl, Secs(0), Secs(1), Secs(2), Secs(-1), Secs(-2)}

\* SetTimeout taking None for 0, as hset does.
SetTimeoutPersistent(ttl) == IF ttl.none THEN 0 ELSE PyInt(ttl.h)

\* int(timeout) as set passes it to _set: None is the default timeout.
SetTimeout(ttl) == IF ttl.none THEN DefaultTimeout ELSE PyInt(ttl.h)

\* int(timeout) as hset passes it to _hset: None is 0.
HSetTimeout(ttl) == IF ttl.none THEN 0 ELSE PyInt(ttl.h)

---------------------------------------------------------------------------
(* The key codec.                                                          *)

\* make_key wraps the name in a CacheKey; the version is not used.
MakeKey(key, version) == key

---------------------------------------------------------------------------
(* The Redis commands the client issues, on the string keys (st) and on    *)
(* one hash (hs: field -> entry).                                          *)

Absent == [present |-> FALSE, val |-> NoWire, rem |-> 0]
Entry(w, rem) == [present |-> TRUE, val |-> w, rem |-> rem]

RedisExists(st, k) == st[k].present
RedisSet(st, k, w) == [st EXCEPT ![k] = Entry(w, 0)]
RedisSetex(st, k, w, secs) == [st EXCEPT ![k] = Entry(w, secs)]
RedisDelete(st, k) == [st EXCEPT ![k] = Absent]

\* INCRBY adding 1 whatever delta is.
RedisIncrByOne(st, k, delta) ==
    IF st[k].present /\ st[k].val.w = "int"
    THEN [ok |-> TRUE, n |-> st[k].val.n + 1,
          store |-> [st EXCEPT ![k].val = NativeInt(st[k].val.n + 1)]]
    ELSE [ok |-> ~st[k].present, n |-> delta,
          store |-> IF st[k].present THEN st
                    ELSE [st EXCEPT ![k] =
                             [present |-> TRUE, val |-> NativeInt(delta),
                              rem |-> 0]]]

\* INCRBY: an absent key counts from 0, a Native Integer is added to and
\* keeps its expiration, anything else is a ResponseError.
RedisIncrBy(st, k, delta) ==
    IF ~st[k].present
    THEN [ok |-> TRUE, n |-> delta, store |-> RedisSet(st, k, NativeInt(delta))]
    ELSE IF st[k].val.w = "int"
         THEN [ok |-> TRUE, n |-> st[k].val.n + delta,
               store |-> [st EXCEPT ![k].val = NativeInt(st[k].val.n + delta)]]
         ELSE [ok |-> FALSE, n |-> 0, store |-> st]

\* HINCRBY on one field of a hash, in the same way.
RedisHIncrBy(hs, f, delta) ==
    IF ~hs[f].present
    THEN [ok |-> TRUE, n |-> delta,
          hash |-> [hs EXCEPT ![f] = Entry(NativeInt(delta), 0)]]
    ELSE IF hs[f].val.w = "int"
         THEN [ok |-> TRUE, n |-> hs[f].val.n + delta,
               hash |-> [hs EXCEPT ![f].val = NativeInt(hs[f].val.n + delta)]]
         ELSE [ok |-> FALSE, n |-> 0, hash |-> hs]

---------------------------------------------------------------------------
(* The client's write paths.                                               *)

\* _set: SET when the timeout is 0, SETEX when it is positive, and neither
\* (the result is False) when it is negative.
PrivSet(st, k, w, timeout) ==
    IF timeout = 0
    THEN [store |-> RedisSet(st, k, w), res |-> TRUE, cmds |-> <<"SET">>]
    ELSE IF timeout > 0
         THEN [store |-> RedisSetex(st, k, w, timeout), res |-> TRUE,
               cmds |-> <<"SETEX">>]
         ELSE [store |-> st, res |-> FALSE, cmds |-> <<>>]

\* set: make the key, default the timeout, encode, _set.
PySet(st, key, version, value, ttl) ==
    PrivSet(st, MakeKey(key, version), Encode(value), SetTimeout(ttl))

\* _hset: HSET (1 for a new field, 0 for an old one), then EXPIRE on the
\* whole hash when the timeout is positive.
PrivHSet(hs, rem, f, w, timeout) ==
    [hash |-> [hs EXCEPT ![f] = Entry(w, 0)],
     rem |-> IF timeout > 0 THEN timeout ELSE rem,
     res |-> IF hs[f].present THEN 0 ELSE 1,
     cmds |-> IF timeout > 0 THEN <<"HSET", "EXPIRE">> ELSE <<"HSET">>]

\* hset: make the keys, default the timeout, encode, _hset.
PyHSet(hs, rem, name, key, version, value, ttl) ==
    PrivHSet(hs, rem, MakeKey(key, version), Encode(value), HSetTimeout(ttl))

---------------------------------------------------------------------------
(* Calls, frames and the history the properties read.                      *)

Procs == {1, 2}
Defaults == {NoneV, IntV(0)}

\* keys is the key list of a multi-key read, data the items of the mapping
\* of a multi-key write in the order the mapping yields them; port, db and
\* parser are the configuration a client is constructed with.
NoCall ==
    [op |-> "none", key |-> "a", version |-> 1, field |-> "f",
     value |-> NoneV, ttl |-> NoTtl, delta |-> 0, default |-> NoneV,
     keys |-> <<>>, data |-> <<>>, port |-> "", db |-> "", parser |-> ""]

\* A frame: the call, the commands it has issued, whether one of them changed
\* the database, the value the increment fallback read, the items of data
\* still to go through, the commands buffered on the pipeline, and whether
\* the pipeline counts as false while it is empty.
NoFrame ==
    [call |-> NoCall, cmds |-> <<>>, changed |-> FALSE, read |-> NoneV,
     todo |-> <<>>, pipe |-> <<>>, falsy |-> FALSE]

\* many: the items of the mapping a call returned, in the mapping's order.
NoLast ==
    [call |-> NoCall, res |-> NoneV, err |-> "none", cmds |-> <<>>,
     changed |-> FALSE, read |-> NoneV, many |-> <<>>]

\* The last write of a wire key: what wrote it, the thread, the arguments,
\* the seconds since, and the versions it has been written with so far.
NoProv ==
    [kind |-> "none", who |-> 0, version |-> 1, value |-> NoneV,
     ttl |-> NoTtl, age |-> 0, versions |-> {}]

\* The call of thread p returns res (or raises err).
Return(p, call, res, err, cmds, changed, read) ==
    /\ pc' = [pc EXCEPT ![p] = "idle"]
    /\ frame' = [frame EXCEPT ![p] = NoFrame]
    /\ last' = [last EXCEPT ![p] =
                   [call |-> call, res |-> res, err |-> err, cmds |-> cmds,
                    changed |-> changed, read |-> read, many |-> <<>>]]

\* The call of thread p returns a mapping of the given items.
ReturnMany(p, call, items, cmds) ==
    /\ pc' = [pc EXCEPT ![p] = "idle"]
    /\ frame' = [frame EXCEPT ![p] = NoFrame]
    /\ last' = [last EXCEPT ![p] =
                   [call |-> call, res |-> DictV, err |-> "none",
                    cmds |-> cmds, changed |-> FALSE, read |-> NoneV,
                    many |-> items]]

\* The call of thread p goes on at position at.
Goto(p, at, call, cmds, changed, read) ==
    /\ pc' = [pc EXCEPT ![p] = at]
    /\ frame' = [frame EXCEPT ![p] =
                    [call |-> call, cmds |-> cmds, changed |-> changed,
                     read |-> read, todo |-> <<>>, pipe |-> <<>>,
                     falsy |-> FALSE]]
    /\ last' = last

Wrote(old, p, kind, version, value, ttl) ==
    [kind |-> kind, who |-> p, version |-> version, value |-> value,
     ttl |-> ttl, age |-> 0,
     versions |-> IF kind \in {"set", "incrby"}
                  THEN old.versions \cup {version}
                  ELSE old.versions]

AllIdle == \A p \in Procs : pc[p] = "idle"

\* Connection identities: (host, port, db, parser_class, unix_socket_path).
Identities ==
    [host : {"h"}, port : {6379}, db : {1, 2},
     parser_class : {"DefaultParser", "PythonParser"},
     unix_socket_path : {"None"}]

\* CacheConnectionPool.__init__: no pool yet.  A pool handle is a positive
\* number, made counts the pools constructed so far.
NoPools == [connection_pools |-> [i \in Identities |-> 0], made |-> 0]

Init ==
    /\ store = [k \in Keys |-> Absent]
    /\ hstore = [n \in HNames |-> [f \in Fields |-> Absent]]
    /\ hrem = [n \in HNames |-> 0]
    /\ prov = [k \in Keys |-> NoProv]
    /\ pc = [p \in Procs |-> "idle"]
    /\ frame = [p \in Procs |-> NoFrame]
    /\ last = [p \in Procs |-> NoLast]
    /\ ticks = 0
    /\ pool = NoPools

---------------------------------------------------------------------------
(* The scalar operations.                                                  *)

\* set(key, value, timeout, version)
Set(p, KS, RS, VS, TS) ==
    /\ pc[p] = "idle"
    /\ \E key \in KS, version \in RS, value \in VS, ttl \in TS :
          LET r == PySet(store, key, version, value, ttl)
              call == [NoCall EXCEPT !.op = "set", !.key = key,
                          !.version = version, !.value = value, !.ttl = ttl]
          IN  /\ store' = r.store
              /\ prov' = IF r.cmds # <<>>
                         THEN [prov EXCEPT ![MakeKey(key, version)] =
                                  Wrote(@, p, "set", version, value, ttl)]
                         ELSE prov
              /\ Return(p, call, BoolV(r.res), "none", r.cmds,
                        r.store # store, NoneV)
    /\ UNCHANGED <<hstore, hrem, ticks, pool>>

\* get(key, default, version)
Get(p, KS, RS) ==
    /\ pc[p] = "idle"
    /\ \E key \in KS, version \in RS, default \in Defaults :
          LET e == store[MakeKey(key, version)]
              call == [NoCall EXCEPT !.op = "get", !.key = key,
                          !.version = version, !.default = default]
          IN  Return(p, call, IF e.present THEN Decode(e.val) ELSE default,
                     "none", <<"GET">>, FALSE, NoneV)
    /\ UNCHANGED <<store, hstore, hrem, prov, ticks, pool>>

\* delete(key, version)
Delete(p, KS, RS) ==
    /\ pc[p] = "idle"
    /\ \E key \in KS, version \in RS :
          LET k == MakeKey(key, version)
              call == [NoCall EXCEPT !.op = "delete", !.key = key,
                          !.version = version]
          IN  /\ store' = RedisDelete(store, k)
              /\ prov' = [prov EXCEPT ![k] = Wrote(@, p, "delete", version, NoneV, NoTtl)]
              /\ Return(p, call, NoneV, "none", <<"DEL">>,
                        store[k].present, NoneV)
    /\ UNCHANGED <<hstore, hrem, ticks, pool>>

\* clear(): FLUSHDB
Clear(p) ==
    /\ pc[p] = "idle"
    /\ store' = [k \in Keys |-> Absent]
    /\ hstore' = [n \in HNames |-> [f \in Fields |-> Absent]]
    /\ hrem' = [n \in HNames |-> 0]
    /\ prov' = [k \in Keys |-> Wrote(NoProv, p, "clear", 1, NoneV, NoTtl)]
    /\ Return(p, [NoCall EXCEPT !.op = "clear"], NoneV, "none", <<"FLUSHDB">>,
              store' # store \/ hstore' # hstore, NoneV)
    /\ UNCHANGED <<ticks, pool>>

\* AddCheck without its existence check.
AddCheckAlways(p, KS, RS, VS, TS) ==
    /\ pc[p] = "idle"
    /\ \E key \in KS, version \in RS, value \in VS, ttl \in TS :
          Goto(p, "add_set",
               [NoCall EXCEPT !.op = "add", !.key = key, !.version = version,
                   !.value = value, !.ttl = ttl],
               <<"EXISTS">>, FALSE, NoneV)
    /\ UNCHANGED <<store, hstore, hrem, prov, ticks, pool>>

\* add(key, value, timeout, version), up to its existence check: False when
\* the key exists.
AddCheck(p, KS, RS, VS, TS) ==
    /\ pc[p] = "idle"
    /\ \E key \in KS, version \in RS, value \in VS, ttl \in TS :
          LET call == [NoCall EXCEPT !.op = "add", !.key = key,
                          !.version = version, !.value = value, !.ttl = ttl]
          IN  IF RedisExists(store, MakeKey(key, version))
              THEN Return(p, call, BoolV(FALSE), "none", <<"EXISTS">>,
                          FALSE, NoneV)
              ELSE Goto(p, "add_set", call, <<"EXISTS">>, FALSE, NoneV)
    /\ UNCHANGED <<store, hstore, hrem, prov, ticks, pool>>

\* AddSet as a set-if-absent: False when the key has appeared meanwhile.
AddSetIfAbsent(p) ==
    /\ pc[p] = "add_set"
    /\ LET c == frame[p].call
           k == MakeKey(c.key, c.version)
           r == IF store[k].present
                THEN [store |-> store, res |-> FALSE, cmds |-> <<"SETNX">>]
                ELSE PySet(store, c.key, c.version, c.value, c.ttl)
       IN  /\ store' = r.store
           /\ prov' = IF r.store # store
                      THEN [prov EXCEPT ![k] =
                               Wrote(@, p, "set", c.version, c.value, c.ttl)]
                      ELSE prov
           /\ Return(p, c, BoolV(r.res), "none", frame[p].cmds \o r.cmds,
                     r.store # store, NoneV)
    /\ UNCHANGED <<hstore, hrem, ticks, pool>>

\* add, from its call of set to its return.
AddSet(p) ==
    /\ pc[p] = "add_set"
    /\ LET c == frame[p].call
           r == PySet(store, c.key, c.version, c.value, c.ttl)
       IN  /\ store' = r.store
           /\ prov' = IF r.cmds # <<>>
                      THEN [prov EXCEPT ![MakeKey(c.key, c.version)] =
                               Wrote(@, p, "set", c.version, c.value, c.ttl)]
                      ELSE prov
           /\ Return(p, c, BoolV(r.res), "none", frame[p].cmds \o r.cmds,
                     frame[p].changed \/ r.store # store, NoneV)
    /\ UNCHANGED <<hstore, hrem, ticks, pool>>

---------------------------------------------------------------------------
(* incr(key, delta, version).                                              *)

\* A counter an increment may start from: the cap that keeps the model finite.
Small(e) ==
    \/ ~e.present
    \/ e.val.n <= MaxCount /\ e.val.p.x <= 2 * MaxCount /\ e.val.base = ""

\* IncrCheck without the not-found error.
IncrCheckNoRaise(p, KS, RS) ==
    /\ pc[p] = "idle"
    /\ \E key \in KS, version \in RS, delta \in Deltas :
          /\ Small(store[MakeKey(key, version)])
          /\ Goto(p, "incr_cmd",
                  [NoCall EXCEPT !.op = "incr", !.key = key,
                      !.version = version, !.delta = delta],
                  <<"EXISTS">>, FALSE, NoneV)
    /\ UNCHANGED <<store, hstore, hrem, prov, ticks, pool>>

\* incr up to its existence check: ValueError when the key does not exist.
IncrCheck(p, KS, RS) ==
    /\ pc[p] = "idle"
    /\ \E key \in KS, version \in RS, delta \in Deltas :
          LET call == [NoCall EXCEPT !.op = "incr", !.key = key,
                          !.version = version, !.delta = delta]
          IN  /\ Small(store[MakeKey(key, version)])
              /\ IF RedisExists(store, MakeKey(key, version))
                 THEN Goto(p, "incr_cmd", call, <<"EXISTS">>, FALSE, NoneV)
                 ELSE Return(p, call, NoneV, "ValueError", <<"EXISTS">>,
                             FALSE, NoneV)
    /\ UNCHANGED <<store, hstore, hrem, prov, ticks, pool>>

\* incr: the INCRBY command; its ResponseError leads to the fallback.
IncrCmd(p) ==
    /\ pc[p] = "incr_cmd"
    /\ LET c == frame[p].call
           k == MakeKey(c.key, c.version)
           r == RedisIncrBy(store, k, c.delta)
           cmds == frame[p].cmds \o <<"INCRBY">>
       IN  IF r.ok
           THEN /\ store' = r.store
                /\ prov' = [prov EXCEPT ![k] =
                               Wrote(@, p, "incrby", c.version, IntV(r.n), NoTtl)]
                /\ Return(p, c, IntV(r.n), "none", cmds, TRUE, NoneV)
           ELSE /\ UNCHANGED <<store, prov>>
                /\ Goto(p, "incr_get", c, cmds, frame[p].changed, NoneV)
    /\ UNCHANGED <<hstore, hrem, ticks, pool>>

\* incr, fallback: value = self.get(key) + 1; the TypeError of the addition
\* is not caught.
IncrGet(p) ==
    /\ pc[p] = "incr_get"
    /\ LET c == frame[p].call
           e == store[MakeKey(c.key, c.version)]
           got == IF e.present THEN Decode(e.val) ELSE NoneV
           cmds == frame[p].cmds \o <<"GET">>
       IN  IF PyAddOne(got).ok
           THEN Goto(p, "incr_set", c, cmds, frame[p].changed, got)
           ELSE Return(p, c, NoneV, "TypeError", cmds, frame[p].changed, got)
    /\ UNCHANGED <<store, hstore, hrem, prov, ticks, pool>>

\* IncrSet adding one to the value the key holds now, not to the value read.
IncrSetFresh(p) ==
    /\ pc[p] = "incr_set"
    /\ LET c == frame[p].call
           value == PyAddOne(Decode(store[MakeKey(c.key, c.version)].val)).v
           r == PySet(store, c.key, c.version, value, NoTtl)
       IN  /\ store' = r.store
           /\ prov' = [prov EXCEPT ![MakeKey(c.key, c.version)] =
                          Wrote(@, p, "set", c.version, value, NoTtl)]
           /\ Return(p, c, value, "none", frame[p].cmds \o r.cmds,
                     TRUE, frame[p].read)
    /\ UNCHANGED <<hstore, hrem, ticks, pool>>

\* incr, fallback: self.set(key, value); return value.
IncrSet(p) ==
    /\ pc[p] = "incr_set"
    /\ LET c == frame[p].call
           value == PyAddOne(frame[p].read).v
           r == PySet(store, c.key, c.version, value, NoTtl)
       IN  /\ store' = r.store
           /\ prov' = [prov EXCEPT ![MakeKey(c.key, c.version)] =
                          Wrote(@, p, "set", c.version, value, NoTtl)]
           /\ Return(p, c, value, "none", frame[p].cmds \o r.cmds,
                     frame[p].changed \/ r.store # store, frame[p].read)
    /\ UNCHANGED <<hstore, hrem, ticks, pool>>

---------------------------------------------------------------------------
(* The hash operations.                                                    *)

\* hset(name, key, value, timeout, version)
HSet(p, FS, RS, VS, TS) ==
    /\ pc[p] = "idle"
    /\ \E name \in HNames, key \in FS, version \in RS,
          value \in VS, ttl \in TS :
          LET n == MakeKey(name, version)
              r == PyHSet(hstore[n], hrem[n], name, key, version, value, ttl)
              call == [NoCall EXCEPT !.op = "hset", !.key = name,
                          !.field = key, !.version = version,
                          !.value = value, !.ttl = ttl]
          IN  /\ hstore' = [hstore EXCEPT ![n] = r.hash]
              /\ hrem' = [hrem EXCEPT ![n] = r.rem]
              /\ Return(p, call, IntV(r.res), "none", r.cmds,
                        hstore' # hstore \/ hrem' # hrem, NoneV)
    /\ UNCHANGED <<store, prov, ticks, pool>>

\* hget(name, key, default, version)
HGet(p, FS, RS) ==
    /\ pc[p] = "idle"
    /\ \E name \in HNames, key \in FS, version \in RS,
          default \in Defaults :
          LET e == hstore[MakeKey(name, version)][MakeKey(key, version)]
              call == [NoCall EXCEPT !.op = "hget", !.key = name,
                          !.field = key, !.version = version,
                          !.default = default]
          IN  Return(p, call, IF e.present THEN Decode(e.val) ELSE default,
                     "none", <<"HGET">>, FALSE, NoneV)
    /\ UNCHANGED <<store, hstore, hrem, prov, ticks, pool>>

\* delete(name, version) of a hash: DEL removes the hash with all its fields.
DeleteHash(p, RS) ==
    /\ pc[p] = "idle"
    /\ \E name \in HNames, version \in RS :
          LET n == MakeKey(name, version)
              call == [NoCall EXCEPT !.op = "delete", !.key = name,
                          !.version = version]
          IN  /\ hstore' = [hstore EXCEPT ![n] = [f \in Fields |-> Absent]]
              /\ hrem' = [hrem EXCEPT ![n] = 0]
              /\ Return(p, call, NoneV, "none", <<"DEL">>,
                        hstore' # hstore, NoneV)
    /\ UNCHANGED <<store, prov, ticks, pool>>

\* hincr(name, key, delta, version) up to its existence check.
HIncrCheck(p, FS, RS) ==
    /\ pc[p] = "idle"
    /\ \E name \in HNames, key \in FS, version \in RS,
          delta \in Deltas :
          LET e == hstore[MakeKey(name, version)][MakeKey(key, version)]
              call == [NoCall EXCEPT !.op = "hincr", !.key = name,
                          !.field = key, !.version = version,
                          !.delta = delta]
          IN  /\ Small(e)
              /\ IF e.present
                 THEN Goto(p, "hincr_cmd", call, <<"HEXISTS">>, FALSE, NoneV)
                 ELSE Return(p, call, NoneV, "ValueError", <<"HEXISTS">>,
                             FALSE, NoneV)
    /\ UNCHANGED <<store, hstore, hrem, prov, ticks, pool>>

\* hincr: the HINCRBY command; its ResponseError leads to the fallback.
HIncrCmd(p) ==
    /\ pc[p] = "hincr_cmd"
    /\ LET c == frame[p].call
           n == MakeKey(c.key, c.version)
           r == RedisHIncrBy(hstore[n], MakeKey(c.field, c.version), c.delta)
           cmds == frame[p].cmds \o <<"HINCRBY">>
       IN  IF r.ok
           THEN /\ hstore' = [hstore EXCEPT ![n] = r.hash]
                /\ Return(p, c, IntV(r.n), "none", cmds, TRUE, NoneV)
           ELSE /\ UNCHANGED hstore
                /\ Goto(p, "hincr_get", c, cmds, frame[p].changed, NoneV)
    /\ UNCHANGED <<store, hrem, prov, ticks, pool>>

\* hincr, fallback: value = self.hget(name, key) + 1.
HIncrGet(p) ==
    /\ pc[p] = "hincr_get"
    /\ LET c == frame[p].call
           e == hstore[MakeKey(c.key, c.version)][MakeKey(c.field, c.version)]
           got == IF e.present THEN Decode(e.val) ELSE NoneV
           cmds == frame[p].cmds \o <<"HGET">>
       IN  IF PyAddOne(got).ok
           THEN Goto(p, "hincr_set", c, cmds, frame[p].changed, got)
           ELSE Return(p, c, NoneV, "TypeError", cmds, frame[p].changed, got)
    /\ UNCHANGED <<store, hstore, hrem, prov, ticks, pool>>

\* hincr, fallback: self.hset(name, key, value); return value.
HIncrSet(p) ==
    /\ pc[p] = "hincr_set"
    /\ LET c == frame[p].call
           n == MakeKey(c.key, c.version)
           value == PyAddOne(frame[p].read).v
           r == PyHSet(hstore[n], hrem[n], c.key, c.field, c.version, value,
                       NoTtl)
       IN  /\ hstore' = [hstore EXCEPT ![n] = r.hash]
           /\ hrem' = [hrem EXCEPT ![n] = r.rem]
           /\ Return(p, c, value, "none", frame[p].cmds \o r.cmds,
                     frame[p].changed \/ hstore' # hstore, frame[p].read)
    /\ UNCHANGED <<store, prov, ticks, pool>>

---------------------------------------------------------------------------
(* The multi-field hash operations.                                        *)

\* The mappings of hset_many and set_many: the items, in the order the
\* mapping yields them, of every mapping of one or two names of FS to values
\* of VS.
Mappings(FS, VS) ==
    {m \in [1..1 -> FS \X VS] \cup [1..2 -> FS \X VS] :
        Len(m) = 2 => m[1][1] # m[2][1]}

\* HMSET: every field of the mapping is set; the hash keeps its expiration.
RedisHMSet(hs, items) ==
    [f \in Fields |->
        IF \E i \in 1..Len(items) : items[i][1] = f
        THEN Entry((CHOOSE it \in {items[i] : i \in 1..Len(items)} :
                       it[1] = f)[2], 0)
        ELSE hs[f]]

\* EXPIRE of a hash that exists: a positive number of seconds is its new
\* time to live, and with 0 seconds or less the hash is deleted at once.
RedisExpire(hs, rem, secs) ==
    IF secs > 0 THEN [hash |-> hs, rem |-> secs]
    ELSE [hash |-> [f \in Fields |-> Absent], rem |-> 0]

\* hset_many(name, mapping_dict, timeout, version): encode every value, one
\* HMSET, then EXPIRE with the timeout as given unless it is None.  A timeout
\* that is no whole number is refused by the store: ResponseError.
HSetMany(p, MS, RS, TS) ==
    /\ pc[p] = "idle"
    /\ \E name \in HNames, mapping_dict \in MS, version \in RS, ttl \in TS :
          LET n == MakeKey(name, version)
              encoded == [i \in 1..Len(mapping_dict) |->
                            <<MakeKey(mapping_dict[i][1], version),
                              Encode(mapping_dict[i][2])>>]
              hs == RedisHMSet(hstore[n], encoded)
              whole == ttl.h % 2 = 0
              r == IF ttl.none \/ ~whole THEN [hash |-> hs, rem |-> hrem[n]]
                   ELSE RedisExpire(hs, hrem[n], ttl.h \div 2)
              call == [NoCall EXCEPT !.op = "hset_many", !.key = name,
                          !.data = mapping_dict, !.version = version,
                          !.ttl = ttl]
              cmds == IF ttl.none THEN <<"HMSET">> ELSE <<"HMSET", "EXPIRE">>
          IN  /\ hstore' = [hstore EXCEPT ![n] = r.hash]
              /\ hrem' = [hrem EXCEPT ![n] = r.rem]
              /\ IF ttl.none \/ whole
                 THEN Return(p, call, BoolV(TRUE), "none", cmds, TRUE, NoneV)
                 ELSE Return(p, call, NoneV, "ResponseError", cmds, TRUE, NoneV)
    /\ UNCHANGED <<store, prov, ticks, pool>>

\* The fields a hash holds, in one order, each with its stored form.
RECURSIVE HashItems(_, _)
HashItems(hs, fs) ==
    IF fs = <<>> THEN <<>>
    ELSE (IF hs[Head(fs)].present
          THEN <<(<<Head(fs), hs[Head(fs)].val>>)>> ELSE <<>>)
         \o HashItems(hs, Tail(fs))

\* hget_all(name, default, version): HGETALL, the values not decoded.
HGetAll(p, RS) ==
    /\ pc[p] = "idle"
    /\ \E name \in HNames, version \in RS :
          ReturnMany(p, [NoCall EXCEPT !.op = "hget_all", !.key = name,
                            !.version = version],
                     HashItems(hstore[MakeKey(name, version)], <<"f", "g">>),
                     <<"HGETALL">>)
    /\ UNCHANGED <<store, hstore, hrem, prov, ticks, pool>>

---------------------------------------------------------------------------
(* set_many and the pipeline.                                              *)

\* set_many(data, timeout, version): the pipeline is made.  Whether an empty
\* pipeline counts as false depends on the redis library: its pipelines
\* define __len__ from some release on, and no truth value of their own.
SetManyStart(p, DS, RS, TS) ==
    /\ pc[p] = "idle"
    /\ \E data \in DS, version \in RS, ttl \in TS, falsy \in BOOLEAN :
          /\ pc' = [pc EXCEPT ![p] = IF data = <<>> THEN "set_many_exec"
                                     ELSE "set_many_set"]
          /\ frame' = [frame EXCEPT ![p] =
                          [NoFrame EXCEPT
                              !.call = [NoCall EXCEPT !.op = "set_many",
                                           !.data = data, !.version = version,
                                           !.ttl = ttl],
                              !.todo = data, !.falsy = falsy]]
    /\ UNCHANGED <<store, hstore, hrem, prov, last, ticks, pool>>

\* _set on a pipeline: the command is buffered, not sent.
PipeSet(pipe, k, value, w, timeout) ==
    IF timeout = 0
    THEN Append(pipe, [cmd |-> "SET", key |-> k, value |-> value, val |-> w,
                       secs |-> 0])
    ELSE IF timeout > 0
         THEN Append(pipe, [cmd |-> "SETEX", key |-> k, value |-> value,
                            val |-> w, secs |-> timeout])
         ELSE pipe

\* SetManySet with every set buffered.
SetManySetBuffered(p) ==
    /\ pc[p] = "set_many_set"
    /\ LET fr == frame[p]
           c == fr.call
           key == Head(fr.todo)[1]
           value == Head(fr.todo)[2]
       IN  /\ frame' = [frame EXCEPT ![p] =
                  [fr EXCEPT !.todo = Tail(fr.todo),
                      !.pipe = PipeSet(fr.pipe, MakeKey(key, c.version), value,
                                       Encode(value), SetTimeout(c.ttl))]]
           /\ UNCHANGED <<store, prov>>
           /\ pc' = [pc EXCEPT ![p] = IF Tail(fr.todo) = <<>>
                                      THEN "set_many_exec" ELSE "set_many_set"]
    /\ UNCHANGED <<hstore, hrem, last, ticks, pool>>

\* set_many, one turn of its loop: self.set(key, value, timeout,
\* client=pipeline).  set takes self._client instead when `not client`, which
\* an empty pipeline that counts as false satisfies: the command is then sent
\* at once and the pipeline stays empty.
SetManySet(p) ==
    /\ pc[p] = "set_many_set"
    /\ LET fr == frame[p]
           c == fr.call
           key == Head(fr.todo)[1]
           value == Head(fr.todo)[2]
           k == MakeKey(key, c.version)
       IN  /\ IF fr.falsy /\ fr.pipe = <<>>
              THEN LET r == PySet(store, key, c.version, value, c.ttl)
                   IN  /\ store' = r.store
                       /\ prov' = IF r.cmds # <<>>
                                  THEN [prov EXCEPT ![k] =
                                           Wrote(@, p, "set", c.version, value,
                                                 c.ttl)]
                                  ELSE prov
                       /\ frame' = [frame EXCEPT ![p] =
                                       [fr EXCEPT !.todo = Tail(fr.todo),
                                           !.cmds = fr.cmds \o r.cmds,
                                           !.changed = fr.changed
                                                       \/ r.store # store]]
              ELSE /\ frame' = [frame EXCEPT ![p] =
                          [fr EXCEPT !.todo = Tail(fr.todo),
                              !.pipe = PipeSet(fr.pipe, k, value,
                                               Encode(value),
                                               SetTimeout(c.ttl))]]
                   /\ UNCHANGED <<store, prov>>
           /\ pc' = [pc EXCEPT ![p] = IF Tail(fr.todo) = <<>>
                                      THEN "set_many_exec" ELSE "set_many_set"]
    /\ UNCHANGED <<hstore, hrem, last, ticks, pool>>

\* The buffered commands applied to the string keys in the order buffered.
RECURSIVE PipeApply(_, _)
PipeApply(st, pipe) ==
    IF pipe = <<>> THEN st
    ELSE PipeApply(IF Head(pipe).cmd = "SET"
                   THEN RedisSet(st, Head(pipe).key, Head(pipe).val)
                   ELSE RedisSetex(st, Head(pipe).key, Head(pipe).val,
                                   Head(pipe).secs),
                   Tail(pipe))

\* set_many: pipeline.execute(), one round trip for the buffered commands
\* (none when nothing is buffered); set_many returns None.
SetManyExec(p) ==
    /\ pc[p] = "set_many_exec"
    /\ LET fr == frame[p]
           c == fr.call
           written(k) == {i \in 1..Len(fr.pipe) : fr.pipe[i].key = k}
       IN  /\ store' = PipeApply(store, fr.pipe)
           /\ prov' = [k \in Keys |->
                          IF written(k) = {} THEN prov[k]
                          ELSE Wrote(prov[k], p, "set", c.version,
                                     fr.pipe[CHOOSE i \in written(k) :
                                                \A j \in written(k) : j <= i
                                            ].value,
                                     c.ttl)]
           /\ Return(p, c, NoneV, "none",
                     fr.cmds \o (IF fr.pipe = <<>> THEN <<>> ELSE <<"EXEC">>),
                     fr.changed \/ store' # store, NoneV)
    /\ UNCHANGED <<hstore, hrem, ticks, pool>>

---------------------------------------------------------------------------
(* The multi-key reads.                                                    *)

\* The key lists of the multi-key reads: every list of at most MaxKeys keys.
MaxKeys == 3
KeyLists == UNION {[1..n -> Keys] : n \in 0..MaxKeys}

\* MGET: the value of each key in turn, nil for a key that does not exist.
RedisMGet(st, ks) ==
    [i \in 1..Len(ks) |-> IF st[ks[i]].present THEN st[ks[i]].val ELSE NoWire]

\* SortedDictSet putting a new key in front.
SortedDictSetFront(items, k, v) ==
    IF \E i \in 1..Len(items) : items[i][1] = k
    THEN [i \in 1..Len(items) |-> IF items[i][1] = k THEN <<k, v>> ELSE items[i]]
    ELSE <<(<<k, v>>)>> \o items

\* SortedDict's d[k] = v: a key the mapping holds keeps its place, a new key
\* goes to the end.
SortedDictSet(items, k, v) ==
    IF \E i \in 1..Len(items) : items[i][1] = k
    THEN [i \in 1..Len(items) |-> IF items[i][1] = k THEN <<k, v>> ELSE items[i]]
    ELSE Append(items, <<k, v>>)

\* The loop of get_many over zip(new_keys, results), from position i on:
\* a nil is skipped, anything else is decoded, made unicode when it is a text,
\* and put under the key as the caller gave it.
RECURSIVE GetManyLoop(_, _, _, _)
GetManyLoop(keys, results, i, recovered_data) ==
    IF i > Len(keys) THEN recovered_data
    ELSE IF results[i] = NoWire
         THEN GetManyLoop(keys, results, i + 1, recovered_data)
         ELSE GetManyLoop(keys, results, i + 1,
                  SortedDictSet(recovered_data, keys[i],
                                SmartUnicode(Decode(results[i]))))

\* get_many(keys, version): {} for no keys, without a command.
GetMany(p, KLS, RS) ==
    /\ pc[p] = "idle"
    /\ \E keys \in KLS, version \in RS :
          LET new_keys == [i \in 1..Len(keys) |-> MakeKey(keys[i], version)]
              call == [NoCall EXCEPT !.op = "get_many", !.keys = keys,
                          !.version = version]
          IN  IF keys = <<>>
              THEN ReturnMany(p, call, <<>>, <<>>)
              ELSE ReturnMany(p, call,
                       GetManyLoop(keys, RedisMGet(store, new_keys), 1, <<>>),
                       <<"MGET">>)
    /\ UNCHANGED <<store, hstore, hrem, prov, ticks, pool>>

\* MandatoryLoop going on after a nil.
RECURSIVE MandatoryLoopSkip(_, _, _, _)
MandatoryLoopSkip(keys, results, i, recovered_data) ==
    IF i > Len(keys) THEN [none |-> FALSE, items |-> recovered_data]
    ELSE IF results[i] = NoWire
         THEN MandatoryLoopSkip(keys, results, i + 1, recovered_data)
         ELSE MandatoryLoopSkip(keys, results, i + 1,
                  SortedDictSet(recovered_data, keys[i], results[i]))

\* The loop of get_many_mandatory, from position i on: None at the first nil,
\* anything else is put under its key as it came from the store.
RECURSIVE MandatoryLoop(_, _, _, _)
MandatoryLoop(keys, results, i, recovered_data) ==
    IF i > Len(keys) THEN [none |-> FALSE, items |-> recovered_data]
    ELSE IF results[i] = NoWire
         THEN [none |-> TRUE, items |-> <<>>]
         ELSE MandatoryLoop(keys, results, i + 1,
                  SortedDictSet(recovered_data, keys[i], results[i]))

\* get_many_mandatory(keys, version): {} for no keys, without a command.
GetManyMandatory(p, KLS, RS) ==
    /\ pc[p] = "idle"
    /\ \E keys \in KLS, version \in RS :
          LET new_keys == [i \in 1..Len(keys) |-> MakeKey(keys[i], version)]
              call == [NoCall EXCEPT !.op = "get_many_mandatory",
                          !.keys = keys, !.version = version]
              r == MandatoryLoop(keys, RedisMGet(store, new_keys), 1, <<>>)
          IN  IF keys = <<>>
              THEN ReturnMany(p, call, <<>>, <<>>)
              ELSE IF r.none
                   THEN Return(p, call, NoneV, "none", <<"MGET">>, FALSE, NoneV)
                   ELSE ReturnMany(p, call, r.items, <<"MGET">>)
    /\ UNCHANGED <<store, hstore, hrem, prov, ticks, pool>>

---------------------------------------------------------------------------
(* Client construction and the connection pool registry.                   *)

\* The configuration texts: the port after the colon of the server address,
\* the database index, and the parser selector ("None" when there is none).
Ports == {"6379", "x"}
DBs == {"1", "2", "x"}
Selectors ==
    {"None", "redis.connection.PythonParser", "redis.connection.NoSuchParser",
     "nosuch.module.Parser", "PythonParser"}

\* int(text), a ValueError when the text spells no integer.
IntOfText(txt) ==
    CASE txt = "6379" -> [ok |-> TRUE, n |-> 6379]
      [] txt = "1" -> [ok |-> TRUE, n |-> 1]
      [] txt = "2" -> [ok |-> TRUE, n |-> 2]
      [] OTHER -> [ok |-> FALSE, n |-> 0]

\* The selectors with no dot, those whose module cannot be imported, and
\* those whose module has no such attribute.
Undotted == {"PythonParser"}
ImportFails == {"nosuch.module.Parser"}
AttributeFails == {"redis.connection.NoSuchParser"}

\* ParserClass raising ImproperlyConfigured for every selector it cannot
\* resolve.
ParserClassGuarded(cls) ==
    IF cls = "None" THEN [err |-> "none", cls |-> "DefaultParser"]
    ELSE IF cls \in Undotted \cup ImportFails \cup AttributeFails
         THEN [err |-> "ImproperlyConfigured", cls |-> ""]
         ELSE [err |-> "none", cls |-> "PythonParser"]

\* The parser_class property.  A selector with no dot fails the unpacking of
\* rsplit's result, outside the try: ValueError.  When the import or the
\* getattr fails, the handler's raise formats its message with the local
\* parser_class, which was never bound: UnboundLocalError.
ParserClass(cls) ==
    IF cls = "None" THEN [err |-> "none", cls |-> "DefaultParser"]
    ELSE IF cls \in Undotted THEN [err |-> "ValueError", cls |-> ""]
    ELSE IF cls \in ImportFails \cup AttributeFails
         THEN [err |-> "UnboundLocalError", cls |-> ""]
         ELSE [err |-> "none", cls |-> "PythonParser"]

\* The connection identity a valid configuration gives.
IdentityOf(c) ==
    [host |-> "h", port |-> IntOfText(c.port).n, db |-> IntOfText(c.db).n,
     parser_class |-> ParserClass(c.parser).cls, unix_socket_path |-> "None"]

\* RedisCache(server, params), up to the call of get_connection_pool: the
\* port, then the db property, then the parser_class property; the first that
\* fails ends the construction.
PrivInit(p, PS, DS, SS) ==
    /\ pc[p] = "idle"
    /\ \E port \in PS, db \in DS, parser \in SS :
          LET call == [NoCall EXCEPT !.op = "init", !.port = port,
                          !.db = db, !.parser = parser]
              err == IF ~IntOfText(port).ok THEN "ImproperlyConfigured"
                     ELSE IF ~IntOfText(db).ok THEN "ImproperlyConfigured"
                     ELSE ParserClass(parser).err
          IN  IF err # "none"
              THEN Return(p, call, NoneV, err, <<>>, FALSE, NoneV)
              ELSE Goto(p, "pool_check", call, <<>>, FALSE, NoneV)
    /\ UNCHANGED <<store, hstore, hrem, prov, ticks, pool>>

\* get_connection_pool: `if not self._connection_pools.get(identifier)`.
GetConnectionPoolCheck(p) ==
    /\ pc[p] = "pool_check"
    /\ Goto(p, IF pool.connection_pools[IdentityOf(frame[p].call)] = 0
               THEN "pool_make" ELSE "pool_return",
            frame[p].call, <<>>, FALSE, NoneV)
    /\ UNCHANGED <<store, hstore, hrem, prov, ticks, pool>>

\* GetConnectionPoolMake keeping an entry another thread has made meanwhile.
GetConnectionPoolMakeOnce(p) ==
    /\ pc[p] = "pool_make"
    /\ LET i == IdentityOf(frame[p].call)
       IN  pool' = IF pool.connection_pools[i] # 0 THEN pool
                   ELSE [connection_pools |->
                            [pool.connection_pools EXCEPT ![i] = pool.made + 1],
                         made |-> pool.made + 1]
    /\ Goto(p, "pool_return", frame[p].call, <<>>, TRUE, NoneV)
    /\ UNCHANGED <<store, hstore, hrem, prov, ticks>>

\* get_connection_pool: a new ConnectionPool is made and put in the registry
\* under the identifier.
GetConnectionPoolMake(p) ==
    /\ pc[p] = "pool_make"
    /\ pool' = [connection_pools |->
                   [pool.connection_pools
                       EXCEPT ![IdentityOf(frame[p].call)] = pool.made + 1],
                made |-> pool.made + 1]
    /\ Goto(p, "pool_return", frame[p].call, <<>>, TRUE, NoneV)
    /\ UNCHANGED <<store, hstore, hrem, prov, ticks>>

\* get_connection_pool: `return self._connection_pools[identifier]`; the
\* client is made on that pool and the construction is complete.
GetConnectionPoolReturn(p) ==
    /\ pc[p] = "pool_return"
    /\ Return(p, frame[p].call,
              IntV(pool.connection_pools[IdentityOf(frame[p].call)]),
              "none", <<>>, frame[p].changed, NoneV)
    /\ UNCHANGED <<store, hstore, hrem, prov, ticks, pool>>

---------------------------------------------------------------------------
(* Time.                                                                   *)

TickSteps == {1, DefaultTimeout - 1}

\* An entry d seconds later: gone once its time to live has run out.
Later(e, d) ==
    IF e.present /\ e.rem > 0
    THEN IF e.rem <= d THEN Absent ELSE [e EXCEPT !.rem = e.rem - d]
    ELSE e

\* d seconds pass between two calls.
Tick ==
    /\ AllIdle
    /\ ticks < MaxTicks
    /\ \E d \in TickSteps :
          /\ store' = [k \in Keys |-> Later(store[k], d)]
          /\ hstore' = [n \in HNames |->
                           IF hrem[n] > 0 /\ hrem[n] <= d
                           THEN [f \in Fields |-> Absent]
                           ELSE hstore[n]]
          /\ hrem' = [n \in HNames |->
                         IF hrem[n] > d THEN hrem[n] - d ELSE 0]
          /\ prov' = [k \in Keys |->
                         IF prov[k].kind = "none" THEN prov[k]
                         ELSE [prov[k] EXCEPT !.age = prov[k].age + d]]
    /\ ticks' = ticks + 1
    /\ UNCHANGED <<pc, frame, last, pool>>

---------------------------------------------------------------------------
(* Specifications.                                                         *)

\* Values and timeouts of the smaller input sets.
FewValues == {IntV(5), FloatV(7)}
Persistent == {Secs(0)}

OneVersion == {1}
OneKey == {"a"}
OneField == {"f"}

\* One client thread on the string keys, every value, no clock: set, get,
\* add, delete, clear.
Next ==
    \/ Set(1, Keys, OneVersion, Values, Persistent)
    \/ Get(1, Keys, OneVersion)
    \/ AddCheck(1, Keys, OneVersion, FewValues, Ttls)
    \/ AddSet(1)
    \/ Delete(1, Keys, OneVersion)
    \/ Clear(1)

Spec == Init /\ [][Next]_vars

\* One client thread on one name under two versions.
NextVer ==
    \/ Set(1, OneKey, Versions, FewValues, Persistent)
    \/ Get(1, OneKey, Versions)
    \/ AddCheck(1, OneKey, Versions, FewValues, Persistent)
    \/ AddSet(1)
    \/ Delete(1, OneKey, Versions)
    \/ IncrCheck(1, OneKey, Versions)
    \/ IncrCmd(1)
    \/ IncrGet(1)
    \/ IncrSet(1)

SpecVer == Init /\ [][NextVer]_vars

\* One client thread on the string keys with every timeout, and the clock.
NextTtl ==
    \/ Set(1, Keys, OneVersion, FewValues, Ttls)
    \/ Get(1, Keys, OneVersion)
    \/ Delete(1, Keys, OneVersion)
    \/ Clear(1)
    \/ Tick

SpecTtl == Init /\ [][NextTtl]_vars

\* One client thread incrementing one key and one hash field of any value.
NextIncr ==
    \/ Set(1, OneKey, OneVersion, Values, Persistent)
    \/ HSet(1, OneField, OneVersion, Values, Persistent)
    \/ Delete(1, OneKey, OneVersion)
    \/ IncrCheck(1, OneKey, OneVersion)
    \/ IncrCmd(1)
    \/ IncrGet(1)
    \/ IncrSet(1)
    \/ HIncrCheck(1, OneField, OneVersion)
    \/ HIncrCmd(1)
    \/ HIncrGet(1)
    \/ HIncrSet(1)

SpecIncr == Init /\ [][NextIncr]_vars

\* Two client threads.  While neither has made a call of add, incr or hincr,
\* thread 1 sets the key and the hash field; then each thread makes one such
\* call, and the commands of the two calls interleave.
Raced(p) == pc[p] # "idle" \/ last[p].call.op \in {"add", "incr", "hincr"}
Fresh == \A p \in Procs : ~Raced(p)

SetUpKey == Fresh /\ Set(1, OneKey, OneVersion, FewValues, Persistent)
SetUpField == Fresh /\ HSet(1, OneField, OneVersion, FewValues, Persistent)
OneAdd(p) == ~Raced(p) /\ AddCheck(p, OneKey, OneVersion, FewValues, Ttls)
OneIncr(p) == ~Raced(p) /\ IncrCheck(p, OneKey, OneVersion)
OneHIncr(p) == ~Raced(p) /\ HIncrCheck(p, OneField, OneVersion)

NextRace ==
    \/ SetUpKey
    \/ SetUpField
    \/ \E p \in Procs :
          \/ OneAdd(p)
          \/ OneIncr(p)
          \/ OneHIncr(p)
          \/ AddSet(p)
          \/ IncrCmd(p)
          \/ IncrGet(p)
          \/ IncrSet(p)
          \/ HIncrCmd(p)
          \/ HIncrGet(p)
          \/ HIncrSet(p)

SpecRace == Init /\ [][NextRace]_vars

\* One client thread reading several keys at once: an integer, a float and
\* two texts.
ManyValues == {IntV(7), FloatV(7), StrV("abc"), StrV("5")}

NextMany ==
    \/ Set(1, Keys, OneVersion, ManyValues, Persistent)
    \/ Delete(1, Keys, OneVersion)
    \/ GetMany(1, KeyLists, OneVersion)
    \/ GetManyMandatory(1, KeyLists, OneVersion)

SpecMany == Init /\ [][NextMany]_vars

\* One client thread on the fields of one hash with every timeout, and the
\* clock.
NextHTtl ==
    \/ HSet(1, Fields, OneVersion, FewValues, Ttls)
    \/ HGet(1, Fields, OneVersion)
    \/ Clear(1)
    \/ Tick

SpecHTtl == Init /\ [][NextHTtl]_vars

\* One client thread writing several fields of one hash at once, with every
\* timeout; no clock.
NextHMany ==
    \/ HSetMany(1, Mappings(Fields, FewValues), OneVersion, Ttls)
    \/ HSet(1, Fields, OneVersion, FewValues, Persistent)
    \/ HGetAll(1, OneVersion)
    \/ Clear(1)

SpecHMany == Init /\ [][NextHMany]_vars

\* One client thread writing several keys at once, with timeout None, 0 or -1.
BatchTtls == {NoTtl, Secs(0), Secs(-2)}

NextBatch ==
    \/ SetManyStart(1, Mappings(Keys, FewValues) \cup {<<>>}, OneVersion,
                    BatchTtls)
    \/ SetManySet(1)
    \/ SetManyExec(1)
    \/ Delete(1, OneKey, OneVersion)

SpecBatch == Init /\ [][NextBatch]_vars

\* One client thread storing and reading back integers (small, negative,
\* and from 2**53 on), floats that are no integers, and a list, in a key and
\* in a hash field.
MaxBig == 3
CodecValues ==
    {IntV(0), IntV(5), IntV(-3), FloatV(7), FloatV(-1), ListV}
    \cup {BigV(d) : d \in 0..MaxBig}

NextCodec ==
    \/ Set(1, OneKey, OneVersion, CodecValues, Persistent)
    \/ Get(1, OneKey, OneVersion)
    \/ HSet(1, OneField, OneVersion, CodecValues, Persistent)
    \/ HGet(1, OneField, OneVersion)

SpecCodec == Init /\ [][NextCodec]_vars

\* Two threads constructing clients from valid configurations.
ValidPorts == {"6379"}
ValidDBs == {"1", "2"}
ValidSelectors == {"None"}

NextPool ==
    \E p \in Procs :
       \/ PrivInit(p, ValidPorts, ValidDBs, ValidSelectors)
       \/ GetConnectionPoolCheck(p)
       \/ GetConnectionPoolMake(p)
       \/ GetConnectionPoolReturn(p)

SpecPool == Init /\ [][NextPool]_vars

\* One thread constructing clients from every configuration.
NextConfig ==
    \/ PrivInit(1, Ports, DBs, Selectors)
    \/ GetConnectionPoolCheck(1)
    \/ GetConnectionPoolMake(1)
    \/ GetConnectionPoolReturn(1)

SpecConfig == Init /\ [][NextConfig]_vars

\* Two client threads: thread 1 sets and increments one key and one hash
\* field, one call after the other, and thread 2 deletes the key or the hash
\* at any moment.
NextGone ==
    \/ Set(1, OneKey, OneVersion, FewValues, Persistent)
    \/ HSet(1, OneField, OneVersion, FewValues, Persistent)
    \/ IncrCheck(1, OneKey, OneVersion)
    \/ IncrCmd(1)
    \/ IncrGet(1)
    \/ IncrSet(1)
    \/ HIncrCheck(1, OneField, OneVersion)
    \/ HIncrCmd(1)
    \/ HIncrGet(1)
    \/ HIncrSet(1)
    \/ Delete(2, OneKey, OneVersion)
    \/ DeleteHash(2, OneVersion)

SpecGone == Init /\ [][NextGone]_vars

\* One client thread incrementing one key and one hash field that are
\* persistent or were written with a timeout of 2 seconds, and the clock.
IncrTtls == {Secs(0), Secs(4)}

NextIncrTtl ==
    \/ Set(1, OneKey, OneVersion, FewValues, IncrTtls)
    \/ HSet(1, OneField, OneVersion, FewValues, IncrTtls)
    \/ IncrCheck(1, OneKey, OneVersion)
    \/ IncrCmd(1)
    \/ IncrGet(1)
    \/ IncrSet(1)
    \/ HIncrCheck(1, OneField, OneVersion)
    \/ HIncrCmd(1)
    \/ HIncrGet(1)
    \/ HIncrSet(1)
    \/ Tick

SpecIncrTtl == Init /\ [][NextIncrTtl]_vars

---------------------------------------------------------------------------
(* Properties.                                                             *)

\* The wire key and the last write of the key a call names.
KeyOf(c) == MakeKey(c.key, c.version)
ProvOf(c) == prov[KeyOf(c)]

\* C1: for every storable value v, set(key, v, 0) followed by get(key), with
\* no write to key in between, returns a value equal to v and of v's type.
C1_SetGetRoundTrip ==
    \A p \in Procs :
        LET c == last[p].call
        IN  (c.op = "get" /\ ProvOf(c).kind = "set" /\ ProvOf(c).ttl = Secs(0))
            => /\ PyEq(last[p].res, ProvOf(c).value)
               /\ last[p].res.t = ProvOf(c).value.t

\* C2: versions isolate.  A get with a version the name was never written
\* with returns the default, and an add with such a version does not find
\* the name taken.
C2_VersionsIsolated ==
    \A p \in Procs :
        LET c == last[p].call
        IN  /\ (c.op = "get" /\ c.version \notin ProvOf(c).versions)
               => last[p].res = c.default
            /\ (c.op = "add" /\ last[p].res = BoolV(FALSE))
               => c.version \in ProvOf(c).versions

\* C3: a key set with timeout 0 stays; a key set with timeout None is there
\* for exactly the first 86400 seconds; a key set with a positive timeout is
\* there for exactly the first timeout seconds.
C3_ExpirationPolicy ==
    \A k \in Keys :
        LET w == prov[k]
        IN  w.kind = "set" =>
               /\ w.ttl = Secs(0) => store[k].present
               /\ w.ttl.none => (store[k].present <=> w.age < DefaultTimeout)
               /\ (~w.ttl.none /\ w.ttl.h > 0)
                  => (store[k].present <=> 2 * w.age < w.ttl.h)

\* C4: set with a negative timeout writes nothing and returns False.
C4_NegativeTimeoutNoWrite ==
    \A p \in Procs :
        LET c == last[p].call
        IN  (c.op = "set" /\ ~c.ttl.none /\ c.ttl.h < 0)
            => /\ last[p].res = BoolV(FALSE)
               /\ last[p].cmds = <<>>
               /\ ~last[p].changed

\* Thread p returns from a call of op in this step.
Returns(p, op) ==
    /\ pc'[p] = "idle"
    /\ last'[p].call.op = op
    /\ pc[p] # "idle" \/ last'[p] # last[p]

\* C5: an add of a key that exists returns False and changes nothing; an add
\* of an absent key with a timeout that is None or >= 0 stores the encoded
\* value in that key alone and returns True.
C5_AddOnlyIfAbsent ==
    [][\A p \in Procs :
          Returns(p, "add") =>
             LET c == last'[p].call
                 k == KeyOf(c)
             IN  IF store[k].present
                 THEN /\ last'[p].res = BoolV(FALSE)
                      /\ UNCHANGED <<store, hstore, hrem>>
                 ELSE (c.ttl.none \/ c.ttl.h >= 0)
                      => /\ last'[p].res = BoolV(TRUE)
                         /\ store'[k].present
                         /\ store'[k].val = Encode(c.value)
                         /\ \A j \in Keys \ {k} : store'[j] = store[j]
                         /\ UNCHANGED <<hstore, hrem>>]_vars

\* C5, reached: a second add, of another value, has failed and the key holds
\* the value of the first.
C5_Witness ==
    LET c == last[1].call
    IN  /\ c.op = "add"
        /\ last[1].res = BoolV(FALSE)
        /\ ProvOf(c).kind = "set"
        /\ store[KeyOf(c)].val = Encode(ProvOf(c).value)
        /\ Encode(c.value) # Encode(ProvOf(c).value)

\* Both threads have returned from a call of op on the same key and field.
BothDid(p, q, op) ==
    /\ p # q
    /\ pc[p] = "idle" /\ pc[q] = "idle"
    /\ last[p].call.op = op /\ last[q].call.op = op
    /\ KeyOf(last[p].call) = KeyOf(last[q].call)
    /\ last[p].call.field = last[q].call.field

\* C6: add is not atomic.  When two concurrent adds of one absent key both
\* get past their existence check (each issues its write after it), both
\* return True and the key holds the value of the later write.
C6_AddRace ==
    \A p, q \in Procs :
        (/\ BothDid(p, q, "add")
         /\ Len(last[p].cmds) = 2 /\ Len(last[q].cmds) = 2
         /\ ProvOf(last[q].call).who = q)
        => /\ last[p].res = BoolV(TRUE)
           /\ last[q].res = BoolV(TRUE)
           /\ store[KeyOf(last[q].call)].val = Encode(last[q].call.value)

\* C6, reached: both adds have returned True, the first one's value is gone.
C6_Witness ==
    /\ BothDid(1, 2, "add")
    /\ last[1].res = BoolV(TRUE) /\ last[2].res = BoolV(TRUE)
    /\ Encode(last[1].call.value) # Encode(last[2].call.value)
    /\ store[KeyOf(last[2].call)].val = Encode(last[2].call.value)

\* The call c starts in this step of thread p.
Starts(p, c) ==
    /\ pc[p] = "idle"
    /\ \/ pc'[p] # "idle" /\ frame'[p].call = c
       \/ pc'[p] = "idle" /\ last'[p].call = c /\ last'[p] # last[p]

\* What a call started on a missing key or field does in that same step.
RaisesNotFound(p, cmd) ==
    /\ pc'[p] = "idle"
    /\ last'[p].err = "ValueError"
    /\ last'[p].cmds = <<cmd>>
    /\ UNCHANGED <<store, hstore, hrem>>

IncrCalls ==
    {[NoCall EXCEPT !.op = "incr", !.key = k, !.version = r, !.delta = d] :
        k \in Keys, r \in Versions, d \in Deltas}

HIncrCalls ==
    {[NoCall EXCEPT !.op = "hincr", !.key = n, !.field = f, !.version = r,
         !.delta = d] :
        n \in HNames, f \in Fields, r \in Versions, d \in Deltas}

FieldOf(c) == hstore[MakeKey(c.key, c.version)][MakeKey(c.field, c.version)]

\* C7: incr of a key that does not exist, and hincr of a field that does not
\* exist, raise the not-found error after the existence check alone: no write
\* is issued and the database is unchanged.
C7_IncrNotFound ==
    [][\A p \in Procs :
          /\ \A c \in IncrCalls :
                (Starts(p, c) /\ ~store[KeyOf(c)].present)
                => RaisesNotFound(p, "EXISTS")
          /\ \A c \in HIncrCalls :
                (Starts(p, c) /\ ~FieldOf(c).present)
                => RaisesNotFound(p, "HEXISTS")]_vars

\* C7, reached: an incr has raised not-found, the key is absent, and the
\* hash holds a field.
C7_Witness ==
    /\ last[1].call.op = "incr"
    /\ last[1].err = "ValueError"
    /\ ~store[KeyOf(last[1].call)].present
    /\ hstore["h"]["f"].present

\* The number one more than the number x.
PlusOne(x) == [x EXCEPT !.x = x.x + 2]

TookFallback(l) ==
    /\ l.call.op \in {"incr", "hincr"}
    /\ Len(l.cmds) >= 3

\* C9: the increment fallback is not atomic.  When two concurrent incr (or
\* hincr) calls on one key (field) both read the same blob value x in their
\* fallback, both return x + 1 without an error and the key holds x + 1, not
\* x + 2: one update is lost.
C9_LostUpdate ==
    \A p, q \in Procs, op \in {"incr", "hincr"} :
        (/\ BothDid(p, q, op)
         /\ TookFallback(last[p]) /\ TookFallback(last[q])
         /\ last[p].read = last[q].read
         /\ IsNumber(last[p].read))
        => /\ last[p].err = "none" /\ last[q].err = "none"
           /\ last[p].res = PlusOne(last[p].read)
           /\ last[q].res = PlusOne(last[p].read)
           /\ LET e == IF op = "incr" THEN store[KeyOf(last[p].call)]
                       ELSE FieldOf(last[p].call)
              IN  e.present /\ Decode(e.val) = PlusOne(last[p].read)

\* C9, reached: two incr calls have both read 3.5 and both returned 4.5.
C9_Witness ==
    /\ BothDid(1, 2, "incr")
    /\ last[1].read = FloatV(7) /\ last[2].read = FloatV(7)
    /\ last[1].res = FloatV(9) /\ last[2].res = FloatV(9)
    /\ store["a"].val = Pickled(FloatV(9))

\* C10, as claimed: every incr or hincr that takes the fallback returns
\* without an error.
C10_FallbackAbsorbs ==
    \A p \in Procs : TookFallback(last[p]) => last[p].err = "none"

\* C10, amended: the fallback returns without an error exactly when the blob
\* decodes to a number, and then it has written the key or field; when the
\* blob decodes to anything else (a text, a composite value) the call raises
\* TypeError after its read, having written nothing.
C10_FallbackNumbersOnly ==
    \A p \in Procs :
        TookFallback(last[p]) =>
           IF IsNumber(last[p].read)
           THEN /\ last[p].err = "none"
                /\ Len(last[p].cmds) = 4
                /\ last[p].cmds[4] \in {"SETEX", "HSET"}
           ELSE /\ last[p].err = "TypeError"
                /\ last[p].cmds \in {<<"EXISTS", "INCRBY", "GET">>,
                                     <<"HEXISTS", "HINCRBY", "HGET">>}
                /\ ~last[p].changed

\* C10, reached: an incr of a key holding 3.5 has gone through the fallback
\* and left 4.5, and an hincr of a field holding a list has raised TypeError.
C10_Witness ==
    /\ prov["a"].kind = "set"
    /\ prov["a"].value = FloatV(9)
    /\ store["a"].val = Pickled(FloatV(9))
    /\ TookFallback(last[1])
    /\ last[1].call.op = "hincr"
    /\ last[1].read = ListV
    /\ last[1].err = "TypeError"

\* The keys of a list, and the place where a key first stands in it.
KeysOf(keys) == {keys[i] : i \in 1..Len(keys)}
FirstAt(keys, k) == CHOOSE i \in 1..Len(keys) :
                       keys[i] = k /\ \A j \in 1..(i - 1) : keys[j] # k

\* C11: get_many returns a mapping of exactly the keys of the list that exist,
\* each once, in the order in which the list first names them, each with the
\* value its stored form decodes to (a text as unicode).
C11_GetManyOrdered ==
    [][\A p \in Procs :
          Returns(p, "get_many") =>
             LET keys == last'[p].call.keys
                 many == last'[p].many
             IN  /\ last'[p].res = DictV
                 /\ {many[i][1] : i \in 1..Len(many)}
                       = {k \in KeysOf(keys) : store[k].present}
                 /\ \A i, j \in 1..Len(many) :
                       i < j => FirstAt(keys, many[i][1]) < FirstAt(keys, many[j][1])
                 /\ \A i \in 1..Len(many) :
                       LET v == Decode(store[many[i][1]].val)
                       IN  /\ PyEq(many[i][2], v)
                           /\ many[i][2] = SmartUnicode(v)]_vars

\* C11, reached: get_many(["b", "a", "b"]) has returned b and then a, with
\* b's integer 7 and a's text.
C11_Witness ==
    /\ last[1].call.op = "get_many"
    /\ last[1].call.keys = <<"b", "a", "b">>
    /\ Len(last[1].many) = 2
    /\ last[1].many[1] = <<"b", IntV(7)>>
    /\ last[1].many[2][1] = "a"
    /\ last[1].many[2][2].s = "abc"

\* C12: get_many_mandatory of a non-empty list returns None when any key of
\* the list does not exist, and otherwise a mapping of every key of the list
\* with the value as the store holds it, not decoded.
C12_MandatoryAllOrNothing ==
    [][\A p \in Procs :
          (Returns(p, "get_many_mandatory") /\ last'[p].call.keys # <<>>) =>
             LET keys == last'[p].call.keys
                 many == last'[p].many
             IN  IF \E k \in KeysOf(keys) : ~store[k].present
                 THEN last'[p].res = NoneV /\ many = <<>>
                 ELSE /\ last'[p].res = DictV
                      /\ {many[i][1] : i \in 1..Len(many)} = KeysOf(keys)
                      /\ \A i \in 1..Len(many) :
                            many[i][2] = store[many[i][1]].val]_vars

\* C12, reached: a is absent and b present, and get_many_mandatory(["b", "a"])
\* has returned None.
C12_Witness ==
    /\ last[1].call.op = "get_many_mandatory"
    /\ last[1].call.keys = <<"b", "a">>
    /\ last[1].res = NoneV
    /\ store["b"].present /\ ~store["a"].present
    /\ last[1].cmds = <<"MGET">>

\* C13: a field written by hset with timeout None is stored persistently: as
\* long as no other call has been made since (time may have passed), the
\* field is there, whatever calls of hset came before on the same hash.
C13_HSetNonePersistent ==
    \A p \in Procs :
        LET c == last[p].call
        IN  (c.op = "hset" /\ c.ttl.none) => FieldOf(c).present

\* C14: hset_many with a timeout that is None, 0 or positive issues one HMSET
\* and at most one EXPIRE, and the hget_all that follows it returns every
\* field of the mapping with a stored form that decodes to the value written.
C14_HSetManyThenGetAll ==
    [][\A p \in Procs :
          LET c == last[p].call
              asked == c.op = "hset_many" /\ (c.ttl.none \/ c.ttl.h >= 0)
          IN  /\ asked => \/ last[p].cmds = <<"HMSET">>
                           \/ last[p].cmds = <<"HMSET", "EXPIRE">>
              /\ (asked /\ Returns(p, "hget_all")
                  /\ last'[p].call.key = c.key)
                 => \A i \in 1..Len(c.data) :
                       \E j \in 1..Len(last'[p].many) :
                          /\ last'[p].many[j][1] = c.data[i][1]
                          /\ PyEq(Decode(last'[p].many[j][2]), c.data[i][2])]_vars

\* C15: no set of set_many reaches the store while set_many goes through
\* data; the one execute applies the buffered sets in their order; and when
\* set_many (timeout None or >= 0) has returned, every key of data holds the
\* value data gives it.
C15_SetManyBuffered ==
    [][\A p \in Procs :
          /\ pc[p] = "set_many_set" => store' = store
          /\ pc[p] = "set_many_exec" =>
                 /\ store' = PipeApply(store, frame[p].pipe)
                 /\ last'[p].cmds \in {<<>>, <<"EXEC">>}
          /\ (Returns(p, "set_many")
              /\ (last'[p].call.ttl.none \/ last'[p].call.ttl.h >= 0))
             => \A i \in 1..Len(last'[p].call.data) :
                   LET it == last'[p].call.data[i]
                       e == store'[MakeKey(it[1], last'[p].call.version)]
                   IN  e.present /\ PyEq(Decode(e.val), it[2])]_vars

\* C16: an integer is stored as a Native Integer and a float that is no
\* integer, or a composite value, as an Opaque Blob, and get returns a value
\* equal to the one stored and of its type; what get returns for a Native
\* Integer is an integer.
C16_CodecRoundTrip ==
    \A p \in Procs :
        LET c == last[p].call
            v == ProvOf(c).value
            raw == store[KeyOf(c)].val
        IN  (c.op = "get" /\ ProvOf(c).kind = "set") =>
               /\ v.t = "int" => raw.w = "int"
               /\ v.t \in {"float", "list"} => raw.w = "pickle"
               /\ raw.w = "int" => last[p].res.t = "int"
               /\ PyEq(last[p].res, v)
               /\ last[p].res.t = v.t

\* The construction of thread p has got its pool.
GotPool(p) == last[p].call.op = "init" /\ last[p].err = "none"

\* C17: two constructions with the same connection identity get the same
\* pool, also when they are the first for that identity and run at the same
\* time; and an entry of the registry, once there, is never replaced.
C17_OnePoolPerIdentity ==
    [][/\ \A p, q \in Procs :
             (GotPool(p) /\ GotPool(q)
              /\ IdentityOf(last[p].call) = IdentityOf(last[q].call))
             => last[p].res = last[q].res
       /\ \A i \in Identities :
             pool.connection_pools[i] # 0
             => pool'.connection_pools[i] = pool.connection_pools[i]]_vars

\* The configuration of the call c is invalid.
Invalid(c) ==
    \/ ~IntOfText(c.port).ok
    \/ ~IntOfText(c.db).ok
    \/ c.parser \in Undotted \cup ImportFails \cup AttributeFails

\* C18: a construction with an invalid port, an invalid db or a parser
\* selector that cannot be resolved raises ImproperlyConfigured, before any
\* pool is looked up or made: the registry is as it was.
C18_ConfigErrors ==
    \A p \in Procs :
        (last[p].call.op = "init" /\ Invalid(last[p].call))
        => /\ last[p].err = "ImproperlyConfigured"
           /\ ~last[p].changed

\* C19: incr creates no key and hincr no field.  A step of an incr past its
\* existence check that finds the key absent (it was removed meanwhile) leaves
\* it absent, and so does a step of an hincr with its field.
C19_IncrNeverCreates ==
    [][\A p \in Procs :
          LET c == frame[p].call
          IN  /\ (pc[p] \in {"incr_cmd", "incr_get", "incr_set"}
                  /\ pc'[p] # pc[p] /\ ~store[KeyOf(c)].present)
                 => ~store'[KeyOf(c)].present
              /\ (pc[p] \in {"hincr_cmd", "hincr_get", "hincr_set"}
                  /\ pc'[p] # pc[p] /\ ~FieldOf(c).present)
                 => ~hstore'[MakeKey(c.key, c.version)]
                            [MakeKey(c.field, c.version)].present]_vars

\* C20: the INCRBY of incr leaves the key's time to live as it is, and the
\* write of the fallback gives the key the default 86400 seconds whatever it
\* had before; hincr, by HINCRBY or by its fallback, leaves the time to live
\* of the hash as it is.
C20_IncrExpiration ==
    [][\A p \in Procs :
          LET k == KeyOf(frame[p].call)
              n == MakeKey(frame[p].call.key, frame[p].call.version)
          IN  /\ (pc[p] = "incr_cmd" /\ pc'[p] = "idle" /\ store[k].present)
                 => store'[k].present /\ store'[k].rem = store[k].rem
              /\ (pc[p] = "incr_set" /\ pc'[p] = "idle")
                 => store'[k].present /\ store'[k].rem = DefaultTimeout
              /\ (pc[p] \in {"hincr_cmd", "hincr_set"} /\ pc'[p] = "idle")
                 => hrem'[n] = hrem[n]]_vars

\* C20, reached: in a run where set gives 0 or 2 seconds only, an incr has
\* gone through the fallback and the key has 86400 seconds to live, while the
\* hash, incremented through the fallback as well, still has its 2 seconds.
C20_Witness ==
    /\ store["a"].present
    /\ store["a"].val = Pickled(FloatV(9))
    /\ store["a"].rem = DefaultTimeout
    /\ TookFallback(last[1])
    /\ last[1].call.op = "hincr"
    /\ hstore["h"]["f"].val = Pickled(FloatV(9))
    /\ hrem["h"] = 2

=============================================================================
